---------------------------- MODULE Spec2Model ----------------------------
(***************************************************************************)
(* FastDaraja: token cache and OAuth refresh (api/services/auth_service),  *)
(* payment initiation (api/routers/stk_push, api/routers/b2c), the replay  *)
(* guard (api/security_middleware, registered in api/main) and the         *)
(* websocket fan-out (api/routers/websocket) fed by the provider           *)
(* callbacks.                                                              *)
(*                                                                         *)
(* Time is in whole seconds.  One asyncio step (the code between two       *)
(* awaits that suspend) is one action.                                     *)
(***************************************************************************)
EXTENDS Integers, Sequences, FiniteSets, TLC

(***************************************************************************)
(* Bounds of the model.                                                    *)
(***************************************************************************)
MaxTime == 1
MaxOAuth == 2
MaxPay == 1
MaxMsgs == 2

(***************************************************************************)
(* Program constants.                                                      *)
(***************************************************************************)
REFRESH_EARLY == 60
DEFAULT_EXPIRES_IN == 3600

NoneVal == "<None>"

Reqs == {1, 2}

\* Python truthiness of an Optional[str]: None and "" are falsy.
Truthy(s) == s # NoneVal /\ s # ""

VARIABLES
    now,          \* the clock read by datetime.now()
    _token,       \* TokenCache._token
    _expiry,      \* TokenCache._expiry: [some |-> FALSE] is None
    lastSet,      \* the arguments and time of the last set_token since a clear
    req,          \* the in-flight handler invocations
    oauthCalls,   \* requests sent to the OAuth endpoint
    payCalls,     \* payment requests sent to the provider
    inp,          \* the request the replay guard has just judged
    clients,      \* api/routers/websocket.clients, a list
    conn,         \* the state of each websocket connection
    recv,         \* recv[c][m]: copies of broadcast m sent to connection c
    missed,       \* missed[c]: the broadcasts over before c connected
    cb,           \* the callback handlers in flight (start: the subscribers
                  \* registered when the handler's broadcast began)
    nextMsg,      \* broadcasts started so far
    doneMsgs,     \* the broadcasts that are over
    reply,        \* an answer of the OAuth endpoint to a refresh ...
    outcome,      \* ... and what get_access_token makes of it
    payload,      \* a callback payload ...
    normalized    \* ... and what its normalization gives

cacheVars == <<_token, _expiry, lastSet>>
payVars == <<now, _token, _expiry, lastSet, req, oauthCalls, payCalls, inp>>
hubVars == <<clients, conn, recv, missed, cb, nextMsg, doneMsgs>>
pureVars == <<reply, outcome, payload, normalized>>

NoExpiry == [some |-> FALSE, at |-> 0]
NoSet == [some |-> FALSE, tok |-> NoneVal, at |-> 0, ttl |-> 0]

(***************************************************************************)
(* TokenCache                                                              *)
(***************************************************************************)
\* A cache that would keep a token for its full lifetime.
set_token_expiry_late(t, expires_in) == [some |-> TRUE, at |-> t + expires_in]
\* set_token: the expiry stored is now + (expires_in - 60) seconds.
set_token_expiry(t, expires_in) == [some |-> TRUE, at |-> t + (expires_in - REFRESH_EARLY)]

\* A cache that would compare the clock with the expiry the wrong way round.
get_token_of_inverted(tok, exp, t) ==
    IF Truthy(tok) /\ exp.some /\ t > exp.at THEN tok ELSE NoneVal
\* get_token on a cache (tok, exp) at time t.
get_token_of(tok, exp, t) ==
    IF Truthy(tok) /\ exp.some /\ t < exp.at THEN tok ELSE NoneVal

get_token == get_token_of(_token, _expiry, now)

\* The two class attributes of TokenCache, as one value.
Cache == [token |-> _token, expiry |-> _expiry]

\* A set_token that would write the expiry only when none is stored.
set_token_of_stale_expiry(c, tok, t, expires_in) ==
    [token |-> tok,
     expiry |-> IF c.expiry.some THEN c.expiry ELSE set_token_expiry(t, expires_in)]
\* A set_token that would keep a token the cache already holds.
set_token_of_keep_existing(c, tok, t, expires_in) ==
    IF Truthy(c.token) THEN c
    ELSE [token |-> tok, expiry |-> set_token_expiry(t, expires_in)]
\* set_token(tok, expires_in) at time t: both attributes, without suspending.
set_token_of(c, tok, t, expires_in) ==
    [token |-> tok, expiry |-> set_token_expiry(t, expires_in)]

\* A clear_token that would assign to an instance, leaving the class as it is.
clear_token_of_instance(c) == c
\* clear_token: both attributes are None.
clear_token_of(c) == [token |-> NoneVal, expiry |-> NoExpiry]

\* A get_access_token that would drop the cached token when a refresh fails.
cache_after_reply_clearing(c, out, t) ==
    IF out.ok THEN set_token_of(c, out.token, t, out.ttl) ELSE clear_token_of(c)
\* get_access_token from the reply to its return or raise: set_token is
\* called on the success path only, after every check that can raise.
cache_after_reply(c, out, t) ==
    IF out.ok THEN set_token_of(c, out.token, t, out.ttl) ELSE c

\* A get_access_token that would read the token back from the cache.
refreshed_token_reread(tok, c, t) == get_token_of(c.token, c.expiry, t)
\* get_access_token after set_token: return access_token.
refreshed_token(tok, c, t) == tok

(***************************************************************************)
(* What the OAuth endpoint, or the transport, can answer.                  *)
(***************************************************************************)
Tokens == {"tokA", "tokB"}
TtlChoices == {59, 61}
ErrorStatuses == {201, 401, 504}

Reply(kind, status, body, token, expKind, expVal) ==
    [kind |-> kind, status |-> status, body |-> body, token |-> token,
     expKind |-> expKind, expVal |-> expVal]

OAuthReplies ==
    \* 200 with a token and a lifetime, or no lifetime
    {Reply("response", 200, "json", t, "num", n) : t \in Tokens, n \in TtlChoices}
    \cup {Reply("response", 200, "json", t, "absent", 0) : t \in Tokens}
    \* 200 without a usable token, with an unreadable lifetime, or no JSON body
    \cup {Reply("response", 200, "json", t, "num", 61) : t \in {NoneVal, ""}}
    \cup {Reply("response", 200, "json", "tokA", "bad", 0)}
    \cup {Reply("response", 200, b, NoneVal, "absent", 0) : b \in {"empty", "text"}}
    \* another status: 201 with a token, and errors with each kind of body
    \cup {Reply("response", 201, "json", "tokA", "num", 61)}
    \cup {Reply("response", s, b, NoneVal, "absent", 0) :
             s \in ErrorStatuses \ {201}, b \in {"empty", "text", "json"}}
    \* no response at all
    \cup {Reply(k, 0, "empty", NoneVal, "absent", 0) : k \in {"timeout", "transport_error"}}

Failure(status, err) ==
    [ok |-> FALSE, status |-> status, err |-> err, token |-> NoneVal, ttl |-> 0]

\* get_access_token after the await of client.get: the outcome of one reply.
OAuthOutcome(rep) ==
    IF rep.kind = "timeout" THEN Failure(504, "timeout")
    ELSE IF rep.kind = "transport_error" THEN Failure(500, "exception")
    ELSE IF rep.status # 200 THEN
        \* response.json() raises on a non-empty body that is not JSON
        IF rep.body = "text" THEN Failure(500, "exception")
        ELSE Failure(rep.status, "provider_rejected")
    ELSE IF rep.body # "json" THEN Failure(500, "exception")
    ELSE IF ~Truthy(rep.token) THEN Failure(500, "no_token")
    ELSE IF rep.expKind = "bad" THEN Failure(500, "exception")
    ELSE [ok |-> TRUE, status |-> 200, err |-> "", token |-> rep.token,
          ttl |-> IF rep.expKind = "absent" THEN DEFAULT_EXPIRES_IN ELSE rep.expVal]

(***************************************************************************)
(* What the payment endpoint can answer.                                   *)
(***************************************************************************)
PayReplies ==
    [kind : {"response"}, status : {200, 401}, body : {"empty", "text", "json"},
     complete : BOOLEAN]
    \cup [kind : {"timeout"}, status : {0}, body : {"empty"}, complete : {FALSE}]

\* initiate_stk_push / initiate_b2c_payment after the await of client.post.
PayOutcome(rep) ==
    IF rep.kind = "timeout" THEN [status |-> 500, err |-> "exception"]
    ELSE IF rep.status # 200 THEN
        IF rep.body = "text" THEN [status |-> 500, err |-> "exception"]
        ELSE [status |-> rep.status, err |-> "provider_rejected"]
    ELSE IF rep.body # "json" \/ ~rep.complete THEN [status |-> 500, err |-> "exception"]
    ELSE [status |-> 200, err |-> ""]

(***************************************************************************)
(* The replay guard: payment_security_middleware.                          *)
(***************************************************************************)
ALLOWED_TIME_SKEW == 120

\* A path is the sequence of its segments: "/api/v1/b2c/payment" is
\* <<"api", "v1", "b2c", "payment">>, and a trailing "/" is a last segment "".
PROTECTED_ENDPOINTS ==
    {<<"api", "v1", "stk-push", "initiate">>,
     <<"api", "v1", "b2c", "payment">>,
     <<"api", "v1", "b2b", "payment">>}

REGISTERED_MERCHANTS == {"merchant_123", "merchant_456"}

\* request.url.path.startswith("/api/v1/")
StartsWithApiV1(path) == Len(path) >= 3 /\ path[1] = "api" /\ path[2] = "v1"

\* A guard that would protect every path under /api/v1/.
IsProtectedAnyApi(path) == StartsWithApiV1(path)
\* request.url.path in PROTECTED_ENDPOINTS
IsProtected(path) == path \in PROTECTED_ENDPOINTS

\* A timestamp header: its form and, for the forms with an offset ("Z",
\* "offset"), the instant it denotes.  A "naive" text is a date and time
\* without offset: it denotes no instant.
HeaderTruthy(ts) == ts.form \notin {"absent", "empty"}

\* timestamp.replace("Z", "+00:00")
ReplaceZ(ts) == IF ts.form = "Z" THEN [ts EXCEPT !.form = "offset"] ELSE ts

\* datetime.fromisoformat: an aware datetime for a text with an offset, a naive
\* one for a text without, ValueError otherwise (a trailing "Z" is not parsed
\* by the versions the replace above is written for).
fromisoformat(ts) ==
    CASE ts.form = "offset" -> [kind |-> "aware", t |-> ts.t]
      [] ts.form = "naive" -> [kind |-> "naive", t |-> 0]
      [] OTHER -> [kind |-> "error", t |-> 0]

Abs(d) == IF d < 0 THEN -d ELSE d

\* A window that would exclude its bounds.
OutsideSkewStrict(d) == d >= ALLOWED_TIME_SKEW
\* abs(now - req_time) > ALLOWED_TIME_SKEW
OutsideSkew(d) == d > ALLOWED_TIME_SKEW

NoGuard == [kind |-> "none", raised |-> 0]
Pass == [kind |-> "pass", raised |-> 0]
Raise(status, kind) == [kind |-> kind, raised |-> status]

\* The same checks with the timestamp parsed before the merchant is looked up.
GuardParseFirst(path, key, ts, t) ==
    IF ~StartsWithApiV1(path) THEN Pass
    ELSE IF ~IsProtected(path) THEN Pass
    ELSE IF ~(Truthy(key) /\ HeaderTruthy(ts)) THEN Raise(400, "missing_headers")
    ELSE LET parsed == fromisoformat(ReplaceZ(ts))
         IN IF parsed.kind = "error" THEN Raise(400, "bad_timestamp")
            ELSE IF key \notin REGISTERED_MERCHANTS THEN Raise(403, "unknown_caller")
            ELSE IF parsed.kind = "naive" THEN Raise(0, "TypeError")
            ELSE IF OutsideSkew(Abs(t - parsed.t))
                 THEN Raise(400, "timestamp_out_of_window")
            ELSE Pass

\* payment_security_middleware up to call_next, at time t: Pass, the
\* HTTPException it raises, or the TypeError of subtracting a naive datetime
\* from the aware datetime.now(timezone.utc).
Guard(path, key, ts, t) ==
    IF ~StartsWithApiV1(path) THEN Pass
    ELSE IF ~IsProtected(path) THEN Pass
    ELSE IF ~(Truthy(key) /\ HeaderTruthy(ts)) THEN Raise(400, "missing_headers")
    ELSE IF key \notin REGISTERED_MERCHANTS THEN Raise(403, "unknown_caller")
    ELSE LET parsed == fromisoformat(ReplaceZ(ts))
         IN IF parsed.kind = "error" THEN Raise(400, "bad_timestamp")
            ELSE IF parsed.kind = "naive" THEN Raise(0, "TypeError")
            ELSE IF OutsideSkew(Abs(t - parsed.t))
                 THEN Raise(400, "timestamp_out_of_window")
            ELSE Pass

\* app.middleware("http")(payment_security_middleware): the function runs as
\* an http middleware, outside the application's exception handlers, so an
\* exception leaving it (an HTTPException as well) is not turned into a
\* response of its status code: the server's error handler answers 500.
MiddlewareErrorStatus(g) == 500

\* The handler a path is routed to (the prefixes of api/main, the routes of
\* api/routers).
Route(path) ==
    CASE path = <<"api", "v1", "stk-push", "initiate">> -> "stk"
      [] path = <<"api", "v1", "b2c", "payment">> -> "b2c"
      [] path = <<"api", "v1", "stk-push", "callback">> -> "stk_callback"
      [] path = <<"api", "v1", "b2c", "result">> -> "b2c_result"
      [] path = <<"api", "v1", "b2c", "timeout">> -> "b2c_timeout"
      [] path = <<"health">> -> "health"
      [] OTHER -> "not_found"

Paths ==
    {<<"health">>, <<"api", "v1">>,
     <<"api", "v1", "stk-push", "initiate">>, <<"api", "v1", "stk-push", "callback">>,
     <<"api", "v1", "b2c", "payment">>, <<"api", "v1", "b2c", "payment", "">>,
     <<"api", "v1", "b2c", "result">>, <<"api", "v1", "b2c", "timeout">>,
     <<"api", "v1", "b2b", "payment">>}

MerchantKeys == {NoneVal, "", "merchant_123", "merchant_456", "merchant_999"}

\* Seconds between the clock and the instant a timestamp header denotes.
Deltas == {-121, -120, -119, 0, 119, 120, 121}

TimestampsAt(t) ==
    [form : {"absent", "empty", "garbage", "naive"}, t : {0}]
    \cup [form : {"Z", "offset"}, t : {t + d : d \in Deltas}]

NoInput == [some |-> FALSE, path |-> <<>>, key |-> NoneVal,
            ts |-> [form |-> "absent", t |-> 0], at |-> 0]

(***************************************************************************)
(* Handler invocations.                                                    *)
(***************************************************************************)
Idle ==
    [pc |-> "idle", op |-> "none", guard |-> NoGuard, issued |-> FALSE,
     tok |-> NoneVal, status |-> 0, err |-> ""]

\* The handler's code from the token to the await of client.post: it formats
\* the phone number (and, for b2c, encrypts the initiator password), which may
\* raise, and then sends the payment request.
SendPayment(r, rec, prepOk) ==
    IF prepOk
    THEN /\ req' = [req EXCEPT ![r] = [rec EXCEPT !.pc = "pay_wait"]]
         /\ payCalls' = payCalls + 1
    ELSE /\ req' = [req EXCEPT ![r] = [rec EXCEPT !.pc = "done", !.status = 500,
                                                 !.err = "exception"]]
         /\ payCalls' = payCalls

\* initiate_stk_push / initiate_b2c_payment up to their first suspension:
\* get_access_token() either returns the cached token, and the handler goes on
\* to send the payment, or sends the OAuth request.
HandlerStart(r, op, prepOk) ==
    /\ oauthCalls < MaxOAuth
    /\ payCalls < MaxPay
    /\ LET cached == get_token
           rec == [req[r] EXCEPT !.op = op]
       IN IF Truthy(cached)
          THEN /\ SendPayment(r, [rec EXCEPT !.tok = cached], prepOk)
               /\ oauthCalls' = oauthCalls
          ELSE /\ req' = [req EXCEPT ![r] = [rec EXCEPT !.pc = "oauth_wait",
                                                        !.issued = TRUE]]
               /\ oauthCalls' = oauthCalls + 1
               /\ payCalls' = payCalls
    /\ UNCHANGED <<now, cacheVars>>

\* A payment initiation that the router hands to its handler.
initiate(r, op, prepOk) ==
    /\ req[r].pc = "idle"
    /\ HandlerStart(r, op, prepOk)
    /\ UNCHANGED inp
    /\ UNCHANGED <<hubVars, pureVars>>

\* verify_credentials: get_access_token(force_refresh=True).
verify_credentials(r) ==
    /\ req[r].pc = "idle"
    /\ oauthCalls < MaxOAuth
    /\ req' = [req EXCEPT ![r] = [Idle EXCEPT !.op = "verify", !.pc = "oauth_wait",
                                             !.issued = TRUE]]
    /\ oauthCalls' = oauthCalls + 1
    /\ UNCHANGED <<now, cacheVars, payCalls, inp>>
    /\ UNCHANGED <<hubVars, pureVars>>

\* get_access_token resumed by the OAuth reply.
oauth_reply(r, rep, prepOk) ==
    /\ req[r].pc = "oauth_wait"
    /\ LET out == OAuthOutcome(rep)
           c == cache_after_reply(Cache, out, now)
       IN /\ _token' = c.token
          /\ _expiry' = c.expiry
          /\ IF out.ok
             THEN LET tok == refreshed_token(out.token, c, now)
                  IN /\ lastSet' = [some |-> TRUE, tok |-> out.token, at |-> now,
                                    ttl |-> out.ttl]
                     /\ IF req[r].op = "verify"
                        THEN /\ req' = [req EXCEPT ![r].pc = "done", ![r].tok = tok,
                                                   ![r].status = 200]
                             /\ payCalls' = payCalls
                        ELSE SendPayment(r, [req[r] EXCEPT !.tok = tok], prepOk)
             ELSE /\ req' = [req EXCEPT ![r].pc = "done", ![r].status = out.status,
                                        ![r].err = out.err]
                  /\ UNCHANGED <<lastSet, payCalls>>
    /\ UNCHANGED <<now, oauthCalls, inp>>
    /\ UNCHANGED <<hubVars, pureVars>>

\* The handler resumed by the payment reply.
pay_reply(r, rep) ==
    /\ req[r].pc = "pay_wait"
    /\ LET out == PayOutcome(rep)
       IN req' = [req EXCEPT ![r].pc = "done", ![r].status = out.status,
                             ![r].err = out.err]
    /\ UNCHANGED <<now, cacheVars, oauthCalls, payCalls, inp>>
    /\ UNCHANGED <<hubVars, pureVars>>

\* The response is sent; the slot serves the next request.
respond(r) ==
    /\ req[r].pc = "done"
    /\ req' = [req EXCEPT ![r] = Idle]
    /\ inp' = NoInput
    /\ UNCHANGED <<now, cacheVars, oauthCalls, payCalls>>
    /\ UNCHANGED <<hubVars, pureVars>>

\* AuthService.clear_cache -> TokenCache.clear_token
clear_cache ==
    /\ LET c == clear_token_of(Cache)
       IN _token' = c.token /\ _expiry' = c.expiry
    /\ lastSet' = NoSet
    /\ UNCHANGED <<now, req, oauthCalls, payCalls, inp>>
    /\ UNCHANGED <<hubVars, pureVars>>

Tick ==
    /\ now < MaxTime
    /\ now' = now + 1
    /\ UNCHANGED <<cacheVars, req, oauthCalls, payCalls, inp>>
    /\ UNCHANGED <<hubVars, pureVars>>

\* A request reaches payment_security_middleware: it is passed on to
\* call_next, or the exception the guard raises ends it.
payment_security_middleware(r, path, key, ts) ==
    /\ req[r].pc = "idle"
    /\ LET g == Guard(path, key, ts, now)
       IN /\ inp' = [some |-> TRUE, path |-> path, key |-> key, ts |-> ts, at |-> now]
          /\ req' = [req EXCEPT ![r] =
                IF g.kind = "pass"
                THEN [Idle EXCEPT !.pc = "routed", !.guard = g]
                ELSE [Idle EXCEPT !.pc = "done", !.guard = g,
                                  !.status = MiddlewareErrorStatus(g),
                                  !.err = "middleware"]]
    /\ UNCHANGED <<now, cacheVars, oauthCalls, payCalls>>
    /\ UNCHANGED <<hubVars, pureVars>>

\* call_next(request): the routed handler runs to its first suspension.  The
\* callback handlers are followed in SpecHub; here they only answer.
call_next(r, prepOk) ==
    /\ req[r].pc = "routed"
    /\ inp.some
    /\ inp' = NoInput
    /\ LET op == Route(inp.path)
       IN IF op \in {"stk", "b2c"}
          THEN HandlerStart(r, op, prepOk)
          ELSE /\ req' = [req EXCEPT ![r].pc = "done", ![r].op = op,
                                     ![r].status = IF op = "not_found" THEN 404 ELSE 200]
               /\ UNCHANGED <<now, cacheVars, oauthCalls, payCalls>>
    /\ UNCHANGED <<hubVars, pureVars>>

(***************************************************************************)
(* The websocket fan-out: websocket_endpoint and broadcast_payment_status. *)
(***************************************************************************)
Conns == {"w1", "w2", "w3"}
\* The callback requests in flight, one at a time.
Handlers == {1}
Msgs == 1..MaxMsgs

Range(q) == {q[k] : k \in 1..Len(q)}

\* list.remove(x): the list without the first x.
RECURSIVE Remove(_, _)
Remove(q, x) ==
    IF q = <<>> THEN <<>>
    ELSE IF Head(q) = x THEN Tail(q)
    ELSE <<Head(q)>> \o Remove(Tail(q), x)

\* A membership change is seen by the broadcasts that are under way.
Disturbed == [h \in Handlers |->
                 IF cb[h].pc = "sending" THEN [cb[h] EXCEPT !.stable = FALSE] ELSE cb[h]]

\* websocket_endpoint: accept, then clients.append(websocket).
websocket_connect(c) ==
    /\ conn[c] = "new"
    /\ conn' = [conn EXCEPT ![c] = "open"]
    /\ clients' = Append(clients, c)
    /\ missed' = [missed EXCEPT ![c] = doneMsgs]
    /\ cb' = Disturbed
    /\ UNCHANGED <<recv, nextMsg, doneMsgs>>
    /\ UNCHANGED <<payVars, pureVars>>

\* The peer goes away; the endpoint, suspended in receive_text, has not run yet.
peer_close(c) ==
    /\ conn[c] = "open"
    /\ conn' = [conn EXCEPT ![c] = "closed"]
    /\ UNCHANGED <<clients, recv, missed, cb, nextMsg, doneMsgs>>
    /\ UNCHANGED <<payVars, pureVars>>

\* websocket_endpoint: receive_text raises WebSocketDisconnect, and the
\* handler of it does clients.remove(websocket).
websocket_disconnect(c) ==
    /\ conn[c] = "closed"
    /\ conn' = [conn EXCEPT ![c] = "gone"]
    /\ clients' = Remove(clients, c)
    /\ cb' = Disturbed
    /\ UNCHANGED <<recv, missed, nextMsg, doneMsgs>>
    /\ UNCHANGED <<payVars, pureVars>>

(***************************************************************************)
(* The provider's callbacks: stk_push_callback, b2c_result_callback,       *)
(* b2c_timeout_callback.                                                   *)
(***************************************************************************)
\* A callback body: whether it is JSON and of which type; the object under
\* Body.stkCallback or Result; its identifiers, result code, description and
\* result type; its metadata (CallbackMetadata or ResultParameters).
Body(json, inner, ids, rc, desc, rtype, meta) ==
    [json |-> json, inner |-> inner, ids |-> ids, rc |-> rc, desc |-> desc,
     rtype |-> rtype, meta |-> meta]

WellFormed(rc, meta) == Body("object", "object", "str", rc, "str", "int", meta)

Bodies ==
    {WellFormed(rc, meta) : rc \in {"0", "1", "2001"},
                            meta \in {"absent", "items", "item_without_name"}}
    \cup {WellFormed("0", "list"),
          WellFormed("absent", "absent"), WellFormed("text", "absent"),
          Body("object", "object", "absent", "0", "str", "int", "items"),
          Body("object", "object", "str", "0", "absent", "int", "items"),
          Body("object", "object", "str", "0", "str", "absent", "items"),
          Body("object", "absent", "absent", "absent", "absent", "absent", "absent"),
          Body("object", "scalar", "absent", "absent", "absent", "absent", "absent"),
          Body("array", "absent", "absent", "absent", "absent", "absent", "absent"),
          Body("invalid", "absent", "absent", "absent", "absent", "absent", "absent")}

IsInt(rc) == rc \in {"0", "1", "2001"}

\* The code of a handler before its broadcast: "raise" when it raises (the
\* body is not JSON or not an object, or the model's validation fails), else
\* "ok"; and after its broadcast: whether it raises.
stk_before(b) ==
    IF b.json # "object" \/ b.inner = "scalar" THEN "raise"
    \* STKPushCallback: merchant_request_id, checkout_request_id: str;
    \* result_code: int; result_desc: str; callback_metadata: Optional[Dict]
    ELSE IF b.inner = "absent" \/ b.ids # "str" \/ ~IsInt(b.rc) \/ b.desc # "str"
            \/ b.meta = "list" THEN "raise"
    ELSE "ok"

\* result_code == 0 and metadata: {item["Name"]: ... for item in items}
stk_after(b) == IF b.rc = "0" /\ b.meta = "item_without_name" THEN "raise" ELSE "ok"

b2c_result_before(b) ==
    IF b.json # "object" \/ b.inner = "scalar" THEN "raise"
    \* B2CCallback: the identifiers are Optional; result_code: int;
    \* result_desc: str; result_type: int, given as None when it is absent;
    \* result_parameters: Optional[dict]
    ELSE IF b.inner = "absent" \/ ~IsInt(b.rc) \/ b.desc # "str" \/ b.rtype # "int"
            \/ b.meta = "list" THEN "raise"
    ELSE "ok"

b2c_result_after(b) == IF b.rc = "0" /\ b.meta = "item_without_name" THEN "raise" ELSE "ok"

b2c_timeout_before(b) == IF b.json = "invalid" THEN "raise" ELSE "ok"

\* SuccessResponse(data=body): data is Optional[dict]
b2c_timeout_after(b) == IF b.json = "array" THEN "raise" ELSE "ok"

Kinds == {"stk", "b2c_result", "b2c_timeout"}

Before(kind, b) ==
    CASE kind = "stk" -> stk_before(b)
      [] kind = "b2c_result" -> b2c_result_before(b)
      [] kind = "b2c_timeout" -> b2c_timeout_before(b)

After(kind, b) ==
    CASE kind = "stk" -> stk_after(b)
      [] kind = "b2c_result" -> b2c_result_after(b)
      [] kind = "b2c_timeout" -> b2c_timeout_after(b)

\* What a handler returns: the SuccessResponse at its end, and the one of its
\* except clause.
Received == [status |-> 200, envelope |-> "SuccessResponse", error |-> FALSE]
Swallowed == [status |-> 200, envelope |-> "SuccessResponse", error |-> TRUE]
Unhandled == [status |-> 500, envelope |-> "none", error |-> TRUE]

\* A handler that would let the exception through.
stk_except_reraise == Unhandled
\* except Exception: return SuccessResponse(message="Callback received", ...)
stk_except == Swallowed
b2c_result_except == Swallowed
b2c_timeout_except == Swallowed

Except(kind) ==
    CASE kind = "stk" -> stk_except
      [] kind = "b2c_result" -> b2c_result_except
      [] kind = "b2c_timeout" -> b2c_timeout_except

NoResp == [status |-> 0, envelope |-> "none", error |-> FALSE]
CbIdle ==
    [pc |-> "idle", kind |-> "none", msg |-> 0, i |-> 0, after |-> "ok",
     stable |-> TRUE, failed |-> FALSE, start |-> {}, resp |-> NoResp]

\* A callback request reaches its handler, which runs to its broadcast.
callback_receive(h, kind, b) ==
    /\ cb[h].pc = "idle"
    /\ nextMsg < MaxMsgs
    /\ IF Before(kind, b) = "raise"
       THEN /\ cb' = [cb EXCEPT ![h] = [CbIdle EXCEPT !.pc = "responded", !.kind = kind,
                                                      !.resp = Except(kind)]]
            /\ nextMsg' = nextMsg
       ELSE /\ cb' = [cb EXCEPT ![h] = [CbIdle EXCEPT !.pc = "sending", !.kind = kind,
                                                      !.msg = nextMsg + 1,
                                                      !.start = Range(clients),
                                                      !.after = After(kind, b)]]
            /\ nextMsg' = nextMsg + 1
    /\ UNCHANGED <<clients, conn, recv, missed, doneMsgs>>
    /\ UNCHANGED <<payVars, pureVars>>

\* An iterator that would step over every other element.
ListNextSkip(i) == i + 2
\* for client in clients: the list iterator moves on by one.
ListNext(i) == i + 1

\* broadcast_payment_status, one turn of its loop: the iterator ends, or it
\* yields clients[i] and send_json either sends or raises.
broadcast_step(h) ==
    /\ cb[h].pc = "sending"
    /\ LET i == cb[h].i
           m == cb[h].msg
       IN IF i < Len(clients)
          THEN LET c == clients[i + 1]
               IN IF conn[c] = "open"
                  THEN /\ recv' = [recv EXCEPT ![c][m] = @ + 1]
                       /\ cb' = [cb EXCEPT ![h].i = ListNext(i)]
                       /\ doneMsgs' = doneMsgs
                  ELSE /\ cb' = [cb EXCEPT ![h].pc = "responded", ![h].failed = TRUE,
                                           ![h].resp = Except(cb[h].kind)]
                       /\ doneMsgs' = doneMsgs \cup {m}
                       /\ recv' = recv
          ELSE /\ cb' = [cb EXCEPT ![h].pc = "responded",
                                   ![h].resp = IF cb[h].after = "raise"
                                               THEN Except(cb[h].kind) ELSE Received]
               /\ doneMsgs' = doneMsgs \cup {m}
               /\ recv' = recv
    /\ UNCHANGED <<clients, conn, missed, nextMsg>>
    /\ UNCHANGED <<payVars, pureVars>>

\* The response is sent to the provider.
callback_respond(h) ==
    /\ cb[h].pc = "responded"
    /\ cb' = [cb EXCEPT ![h] = CbIdle]
    /\ UNCHANGED <<clients, conn, recv, missed, nextMsg, doneMsgs>>
    /\ UNCHANGED <<payVars, pureVars>>

(***************************************************************************)
(* Normalization of callback payloads: STKPushCallback and its properties, *)
(* B2CTransactionDetails.from_result_parameters.                           *)
(***************************************************************************)
\* The Value of a metadata item: absent, null, a text that is no number, a
\* number, or a number written as a string.  Amounts are in hundredths.
Value(kind, n) == [kind |-> kind, n |-> n]
Values ==
    {Value(k, 0) : k \in {"absent", "null", "text"}}
    \cup {Value(k, n) : k \in {"num", "numstr"}, n \in {0, 100}}

\* A metadata item: an object with a Name (or Key) and a Value, or something
\* that is not an object.
NonDictItem == [dict |-> FALSE, name |-> "absent", value |-> Value("absent", 0)]
ItemsOver(names) == {NonDictItem} \cup [dict : {TRUE}, name : names, value : Values]
\* The lists of no, one or two items.
ItemLists(names) ==
    {<<>>} \cup {<<a>> : a \in ItemsOver(names)}
    \cup {<<a, b>> : a \in ItemsOver(names), b \in ItemsOver(names)}

\* CallbackMetadata / ResultParameters: absent, not an object, or an object
\* whose Item / ResultParameter is absent, not a list, or a list of items.
Meta(kind, item, items) == [kind |-> kind, item |-> item, items |-> items]
Metas(names) ==
    {Meta("absent", "absent", <<>>), Meta("scalar", "absent", <<>>),
     Meta("dict", "absent", <<>>), Meta("dict", "scalar", <<>>)}
    \cup {Meta("dict", "list", l) : l \in ItemLists(names)}

StkNames == {"absent", "Amount", "MpesaReceiptNumber"}
B2cKeys == {"absent", "TransactionAmount", "TransactionReceipt"}

StkPayloads ==
    [kind : {"stk"}, ids : {"str", "absent"}, rc : {"0", "1", "absent", "text"},
     desc : {"str", "absent"}, meta : Metas(StkNames)]
B2cPayloads ==
    [kind : {"b2c"}, ids : {"str"}, rc : {"0"}, desc : {"str"}, meta : Metas(B2cKeys)]

\* An optional field of the outcome: None, a float, a string, or the
\* exception raised on the way to it.
None == [kind |-> "none", n |-> 0]
Float(n) == [kind |-> "float", n |-> n]
Str(v) == [kind |-> "str", n |-> v.n]
StrOfNone == [kind |-> "str_None", n |-> 0]
Raises == [kind |-> "raise", n |-> 0]

\* float(x)
float_of(v) ==
    CASE v.kind \in {"num", "numstr"} -> Float(v.n)
      [] OTHER -> Raises

\* str(x)
str_of(v) ==
    CASE v.kind \in {"absent", "null"} -> StrOfNone
      [] OTHER -> Str(v)

\* for item in items: if item.get('Name') == 'Amount':
\*     return float(item.get('Value', 0))
RECURSIVE amount_of_items(_)
amount_of_items(items) ==
    IF items = <<>> THEN None
    ELSE LET item == Head(items)
         IN IF ~item.dict THEN Raises
            ELSE IF item.name = "Amount"
                 THEN float_of(IF item.value.kind = "absent" THEN Value("num", 0)
                               ELSE item.value)
            ELSE amount_of_items(Tail(items))

\* STKPushCallback.amount
amount(meta) ==
    IF meta.kind = "absent" \/ meta.item = "absent" THEN None
    ELSE IF meta.item = "scalar" THEN Raises
    ELSE amount_of_items(meta.items)

RECURSIVE receipt_of_items(_)
receipt_of_items(items) ==
    IF items = <<>> THEN None
    ELSE LET item == Head(items)
         IN IF ~item.dict THEN Raises
            ELSE IF item.name = "MpesaReceiptNumber" THEN str_of(item.value)
            ELSE receipt_of_items(Tail(items))

\* STKPushCallback.mpesa_receipt_number
mpesa_receipt_number(meta) ==
    IF meta.kind = "absent" \/ meta.item = "absent" THEN None
    ELSE IF meta.item = "scalar" THEN Raises
    ELSE receipt_of_items(meta.items)

NotNormalized == [state |-> "none", succeeded |-> FALSE, amount |-> None, receipt |-> None]
Raised == [state |-> "raised", succeeded |-> FALSE, amount |-> None, receipt |-> None]
Returned(succeeded, a, r) ==
    [state |-> "returned", succeeded |-> succeeded, amount |-> a, receipt |-> r]

\* STKPushCallback(...) of stk_push_callback, then the properties of the model.
stk_normalize(p) ==
    IF p.ids # "str" \/ ~IsInt(p.rc) \/ p.desc # "str" \/ p.meta.kind = "scalar"
    THEN Raised
    ELSE LET a == amount(p.meta)
             r == mpesa_receipt_number(p.meta)
         IN IF a.kind = "raise" \/ r.kind = "raise" THEN Raised
            ELSE Returned(p.rc = "0", a, r)

\* data = {item["Key"]: item.get("Value") for item in items}; data.get(key)
RECURSIVE data_get(_, _)
data_get(items, key) ==
    IF items = <<>> THEN Value("absent", 0)
    ELSE LET last == items[Len(items)]
         IN IF last.name = key THEN last.value
            ELSE data_get(SubSeq(items, 1, Len(items) - 1), key)

\* B2CTransactionDetails.from_result_parameters
from_result_parameters(meta) ==
    IF meta.kind = "absent" THEN Returned(TRUE, None, None)
    ELSE IF meta.kind = "scalar" \/ meta.item = "scalar" THEN Raised
    ELSE IF \E k \in 1..Len(meta.items) :
                ~meta.items[k].dict \/ meta.items[k].name = "absent" THEN Raised
    ELSE LET a == data_get(meta.items, "TransactionAmount")
             r == data_get(meta.items, "TransactionReceipt")
         IN \* transaction_amount: Optional[float]; transaction_receipt: Optional[str]
            IF a.kind = "text" \/ r.kind = "num" THEN Raised
            ELSE Returned(TRUE,
                          IF a.kind \in {"absent", "null"} THEN None ELSE Float(a.n),
                          IF r.kind \in {"absent", "null"} THEN None ELSE Str(r))

NoReply == Reply("none", 0, "empty", NoneVal, "absent", 0)
NoPayload == [kind |-> "none", ids |-> "absent", rc |-> "absent", desc |-> "absent",
              meta |-> Meta("absent", "absent", <<>>)]
Fresh == reply = NoReply /\ payload = NoPayload

\* get_access_token on a cache miss, from the request to its result.
refresh ==
    /\ Fresh
    /\ \E rep \in OAuthReplies :
          /\ reply' = rep
          /\ outcome' = OAuthOutcome(rep)
    /\ UNCHANGED <<payload, normalized>>
    /\ UNCHANGED <<payVars, hubVars>>

\* A push result is normalized.
normalize_stk ==
    /\ Fresh
    /\ \E p \in StkPayloads :
          /\ payload' = p
          /\ normalized' = stk_normalize(p)
    /\ UNCHANGED <<reply, outcome>>
    /\ UNCHANGED <<payVars, hubVars>>

\* The result parameters of a disbursement result are parsed.
normalize_b2c ==
    /\ Fresh
    /\ \E p \in B2cPayloads :
          /\ payload' = p
          /\ normalized' = from_result_parameters(p.meta)
    /\ UNCHANGED <<reply, outcome>>
    /\ UNCHANGED <<payVars, hubVars>>

vars == <<payVars, hubVars, pureVars>>

InitAuth ==
    /\ now = 0
    /\ _token = NoneVal
    /\ _expiry = NoExpiry
    /\ lastSet = NoSet
    /\ req = [r \in Reqs |-> Idle]
    /\ oauthCalls = 0
    /\ payCalls = 0
    /\ inp = NoInput

InitHub ==
    /\ clients = <<>>
    /\ conn = [c \in Conns |-> "new"]
    /\ recv = [c \in Conns |-> [m \in Msgs |-> 0]]
    /\ missed = [c \in Conns |-> {}]
    /\ cb = [h \in Handlers |-> CbIdle]
    /\ nextMsg = 0
    /\ doneMsgs = {}

InitPure ==
    /\ reply = NoReply
    /\ outcome = Failure(0, "none")
    /\ payload = NoPayload
    /\ normalized = NotNormalized

Init == InitAuth /\ InitHub /\ InitPure

\* Handlers running concurrently on the token cache.
Next ==
    \/ \E r \in Reqs, op \in {"stk", "b2c"}, prepOk \in BOOLEAN : initiate(r, op, prepOk)
    \/ \E r \in Reqs : verify_credentials(r)
    \/ \E r \in Reqs, rep \in OAuthReplies, prepOk \in BOOLEAN : oauth_reply(r, rep, prepOk)
    \/ \E r \in Reqs, rep \in PayReplies : pay_reply(r, rep)
    \/ \E r \in Reqs : respond(r)
    \/ clear_cache
    \/ Tick

Spec == Init /\ [][Next]_vars

\* One request at a time through the replay guard and on to its handler.
NextGuard ==
    \/ \E path \in Paths, key \in MerchantKeys, ts \in TimestampsAt(now) :
          payment_security_middleware(1, path, key, ts)
    \/ \E prepOk \in BOOLEAN : call_next(1, prepOk)
    \/ \E rep \in OAuthReplies, prepOk \in BOOLEAN : oauth_reply(1, rep, prepOk)
    \/ \E rep \in PayReplies : pay_reply(1, rep)
    \/ respond(1)

SpecGuard == Init /\ [][NextGuard]_vars

\* Subscribers coming and going while callbacks are handled and broadcast.
NextHub ==
    \/ \E c \in Conns : websocket_connect(c)
    \/ \E c \in Conns : peer_close(c)
    \/ \E c \in Conns : websocket_disconnect(c)
    \/ \E h \in Handlers, kind \in Kinds, b \in Bodies : callback_receive(h, kind, b)
    \/ \E h \in Handlers : broadcast_step(h)
    \/ \E h \in Handlers : callback_respond(h)

SpecHub == Init /\ [][NextHub]_vars

\* One refresh, or one normalization, on each input.
NextPure ==
    \/ refresh
    \/ normalize_stk
    \/ normalize_b2c

SpecPure == Init /\ [][NextPure]_vars

(***************************************************************************)
(* Properties.                                                             *)
(***************************************************************************)
RejectKinds ==
    {"missing_headers", "unknown_caller", "bad_timestamp", "timestamp_out_of_window"}

\* C1: once a call has cached a token, a later get_access_token() with
\* force_refresh=false made before the cached expiry (the time of the caching
\* plus the lifetime less 60 s), with no clear in between, returns the cached
\* token and sends no OAuth request; so two calls in succession send at most
\* one.  (The cached token is the one of the latest refresh.)
C1_CacheHitSendsNoOAuth ==
    [][\A r \in Reqs :
          (/\ req[r].pc = "idle"
           /\ req'[r].pc # "idle"
           /\ req'[r].op \in {"stk", "b2c"}
           /\ lastSet.some
           /\ now < lastSet.at + lastSet.ttl - 60)
          => (/\ req'[r].tok = lastSet.tok
              /\ ~req'[r].issued
              /\ oauthCalls' = oauthCalls)]_vars

\* A handler holds the cached token after the one OAuth request of an
\* earlier call, having sent none itself.
C1_Witness ==
    \E r \in Reqs :
        /\ req[r].pc \in {"pay_wait", "done"}
        /\ req[r].op \in {"stk", "b2c"}
        /\ ~req[r].issued
        /\ lastSet.some
        /\ req[r].tok = lastSet.tok
        /\ oauthCalls = 1

\* C2: after set_token(tok, t) at time T0, with no later set or clear,
\* get_token() returns tok while now < T0 + t - 60 and None from then on.
C2_GetTokenUntilExpiry ==
    lastSet.some =>
        get_token = IF now < lastSet.at + lastSet.ttl - 60 THEN lastSet.tok ELSE NoneVal

\* The clock stands exactly at T0 + t - 60 of a token that was valid before.
C2_Witness ==
    /\ lastSet.some
    /\ now = lastSet.at + lastSet.ttl - 60
    /\ now > lastSet.at
    /\ get_token = NoneVal

\* What the request judged by the guard fails, in the words of the checks.
MissingHeaders == ~(Truthy(inp.key) /\ HeaderTruthy(inp.ts))
UnknownCaller == inp.key \notin REGISTERED_MERCHANTS
Parseable == inp.ts.form \in {"Z", "offset", "naive"}
\* Only a timestamp with an offset denotes an instant.
HasInstant == inp.ts.form \in {"Z", "offset"}
Judged == inp.some /\ inp.path \in PROTECTED_ENDPOINTS

\* C7: on a protected path the guard reports the error of the first failing
\* check in the order missing headers, unknown caller, unparseable timestamp,
\* timestamp outside the window.
C7_FirstFailingCheckReported ==
    Judged =>
        LET g == req[1].guard.kind
        IN /\ MissingHeaders => g = "missing_headers"
           /\ (~MissingHeaders /\ UnknownCaller) => g = "unknown_caller"
           /\ (~MissingHeaders /\ ~UnknownCaller /\ ~Parseable) => g = "bad_timestamp"
           /\ (~MissingHeaders /\ ~UnknownCaller /\ HasInstant
                 /\ Abs(inp.at - inp.ts.t) > 120) => g = "timestamp_out_of_window"

\* An unknown caller with an unparseable timestamp is reported as unknown.
C7_Witness ==
    /\ Judged
    /\ inp.key = "merchant_999"
    /\ inp.ts.form = "garbage"
    /\ req[1].guard.kind = "unknown_caller"

\* C8: for a registered caller with a parseable timestamp on a protected
\* path, the guard lets the request through exactly when the timestamp is an
\* instant at most 120 s from now, before or after.
C8_AcceptedIffWithinTwoMinutes ==
    (Judged /\ ~MissingHeaders /\ ~UnknownCaller /\ Parseable) =>
        (req[1].guard.kind = "pass"
            <=> (HasInstant /\ Abs(inp.at - inp.ts.t) <= 120))

\* A timestamp exactly two minutes ahead is let through.
C8_Witness ==
    /\ Judged /\ ~UnknownCaller
    /\ HasInstant
    /\ inp.ts.t - inp.at = 120
    /\ req[1].guard.kind = "pass"
    /\ req[1].pc = "routed"

\* C9: a request whose path is not a protected endpoint is passed to
\* call_next whatever its headers are.
C9_UnprotectedPathPassesThrough ==
    (inp.some /\ inp.path \notin PROTECTED_ENDPOINTS) =>
        (req[1].guard.kind = "pass" /\ req[1].pc = "routed")

\* A callback without a caller key and with a stale timestamp is passed on.
C9_Witness ==
    /\ inp.some
    /\ inp.path = <<"api", "v1", "stk-push", "callback">>
    /\ inp.key = NoneVal
    /\ inp.ts.form = "offset" /\ inp.at - inp.ts.t = 121
    /\ req[1].pc = "routed"

\* C10: a request the guard rejects never reaches its handler, so it sends
\* no OAuth and no payment request and leaves the cache alone, and it is
\* answered 403 for an unknown caller and 400 for the other rejections.
C10_RejectedWith400Or403 ==
    \A r \in Reqs :
        req[r].guard.kind \in RejectKinds =>
            /\ req[r].pc = "done"
            /\ ~req[r].issued
            /\ req[r].tok = NoneVal
            /\ req[r].status = IF req[r].guard.kind = "unknown_caller" THEN 403 ELSE 400

\* The part of C10 that the code keeps: a rejected request ends in the
\* middleware, with the cache and the provider untouched.
RejectedBeforeHandler ==
    [][\A r \in Reqs :
          (req[r].pc = "idle" /\ req'[r].guard.kind \in RejectKinds)
          => (/\ req'[r].pc = "done"
              /\ UNCHANGED <<cacheVars, oauthCalls, payCalls>>)]_vars


(***************************************************************************)
(* The callbacks and the fan-out.                                          *)
(***************************************************************************)
\* C3: each of the three callback handlers answers the provider with the
\* success envelope (HTTP 200, a SuccessResponse) for every request: when the
\* body is not JSON or fails validation, when a send to a subscriber fails,
\* and when the code after the broadcast raises.
C3_CallbackAlwaysAcknowledged ==
    \A h \in Handlers :
        cb[h].pc = "responded" =>
            cb[h].resp.status = 200 /\ cb[h].resp.envelope = "SuccessResponse"

C3_Witness ==
    \E h \in Handlers :
        /\ cb[h].pc = "responded" /\ cb[h].kind = "stk"
        /\ cb[h].failed /\ cb[h].resp = Swallowed

\* C4: a broadcast in which the send to one subscriber fails still delivers
\* its payload to every other registered subscriber whose own send does not
\* fail.
C4_FailedSendDoesNotAbortBroadcast ==
    \A h \in Handlers :
        (cb[h].pc = "responded" /\ cb[h].failed /\ cb[h].stable) =>
            \A c \in Range(clients) :
                (conn[c] = "open" /\ cb[h].msg \notin missed[c]) => recv[c][cb[h].msg] >= 1

\* C5: a broadcast that runs to its end while the set of registered
\* subscribers does not change sends exactly one copy of its payload to every
\* subscriber registered when it was called; no subscriber is ever sent a
\* second copy; and a subscriber that registers after the broadcast is over
\* is sent nothing of it.
C5_ExactlyOneCopyEach ==
    /\ \A h \in Handlers :
           (cb[h].pc = "responded" /\ cb[h].msg # 0 /\ ~cb[h].failed /\ cb[h].stable) =>
               \A c \in Range(clients) :
                   cb[h].msg \notin missed[c] => recv[c][cb[h].msg] = 1
    /\ \A c \in Conns, m \in Msgs : recv[c][m] <= 1
    /\ \A c \in Conns : \A m \in missed[c] : recv[c][m] = 0

C5_Witness ==
    \E h \in Handlers :
        /\ cb[h].pc = "responded" /\ cb[h].msg # 0 /\ ~cb[h].failed /\ cb[h].stable
        /\ Len(clients) = 3
        /\ \E late \in Conns :
              /\ cb[h].msg \in missed[late] /\ recv[late][cb[h].msg] = 0
              /\ \A c \in Conns \ {late} : recv[c][cb[h].msg] = 1

\* C6: a subscriber to which a send fails during a broadcast is removed from
\* the set of registered subscribers by that broadcast.
C6_FailedSubscriberRemoved ==
    [][\A h \in Handlers :
          (cb[h].pc = "sending" /\ cb'[h].failed) =>
              clients[cb[h].i + 1] \notin Range(clients')]_vars

\* C11: every callback request that reaches a callback handler is broadcast
\* to the registered subscribers before the handler responds, also when the
\* body is not JSON or fails validation.
C11_EveryCallbackIsBroadcast ==
    \A h \in Handlers : cb[h].pc = "responded" => cb[h].msg # 0

(***************************************************************************)
(* The credential and the provider's errors.                               *)
(***************************************************************************)
\* C12: when the provider rejects (a status other than success) a payment
\* request that was sent with the cached token, the cache is invalidated: the
\* next get_token returns nothing, so the next call refreshes.
C12_RejectedTokenInvalidated ==
    [][\A r \in Reqs :
          (/\ req[r].pc = "pay_wait" /\ req'[r].pc = "done"
           /\ req'[r].err = "provider_rejected"
           /\ Truthy(get_token) /\ req[r].tok = get_token)
          => get_token' = NoneVal]_vars

\* C14: a failed OAuth request that did not time out never ends with the
\* status a timeout ends with (504), whatever the provider answered.
C14_TimeoutStatusIsDistinct ==
    [][\A r \in Reqs :
          (/\ req[r].pc = "oauth_wait" /\ req'[r].pc = "done"
           /\ req'[r].err \notin {"", "timeout"})
          => req'[r].status # 504]_vars

\* C17: after clear_token, from whatever the cache held (nothing, a valid
\* token, an expired token), get_token returns nothing, and a second
\* clear_token changes nothing more.
C17_ClearThenGetIsEmpty ==
    ~lastSet.some =>
        /\ get_token = NoneVal
        /\ clear_token_of(Cache) = Cache
        /\ get_token_of(clear_token_of(Cache).token, clear_token_of(Cache).expiry, now)
              = NoneVal

C17_Witness ==
    /\ ~lastSet.some
    /\ oauthCalls > 0
    /\ \E r \in Reqs : Truthy(req[r].tok)

\* C19: with handlers setting, clearing and reading the cache concurrently,
\* the token and the expiry the cache holds always come from the same
\* set_token, or both from the same clear_token; get_token returns a token
\* only when its own expiry has not passed.
C19_NoTornCredential ==
    /\ lastSet.some =>
          /\ _token = lastSet.tok
          /\ _expiry = [some |-> TRUE, at |-> lastSet.at + lastSet.ttl - 60]
    /\ ~lastSet.some => (_token = NoneVal /\ _expiry = NoExpiry)
    /\ Truthy(get_token) =>
          (lastSet.some /\ get_token = lastSet.tok /\ now < lastSet.at + lastSet.ttl - 60)

C19_Witness ==
    /\ lastSet.some /\ lastSet.tok = "tokB" /\ lastSet.ttl = 61
    /\ get_token = "tokB"
    /\ \E r \in Reqs : req[r].pc = "pay_wait" /\ req[r].tok = "tokA" /\ req[r].issued

\* C20: a caller whose own refresh succeeds returns the token its own OAuth
\* request obtained, and leaves the cache holding exactly that token with the
\* expiry computed from that reply, whatever other refreshes are under way.
C20_UnserializedRefreshesAreConsistent ==
    [][\A r \in Reqs :
          (/\ req[r].pc = "oauth_wait" /\ req'[r].pc # "oauth_wait"
           /\ lastSet'.some /\ lastSet' # lastSet)
          => (/\ req'[r].tok = lastSet'.tok
              /\ _token' = lastSet'.tok
              /\ _expiry' = [some |-> TRUE, at |-> now + lastSet'.ttl - 60])]_vars

\* Two callers saw the same miss and each sent its own OAuth request: the
\* first has its token, the second is still waiting.
C20_Witness ==
    /\ oauthCalls = 2
    /\ req[1].op = "stk" /\ req[1].pc = "pay_wait" /\ req[1].issued /\ req[1].tok = "tokA"
    /\ req[2].op = "stk" /\ req[2].pc = "oauth_wait" /\ req[2].issued
    /\ lastSet.some /\ lastSet.at = now /\ get_token = "tokA"

\* C18: when subscribers connect or disconnect while a broadcast is suspended
\* in a send, every subscriber that stays registered from the start of the
\* broadcast to its end is sent the payload exactly once.
C18_MembershipChangeKeepsIteration ==
    \A h \in Handlers :
        (cb[h].pc = "responded" /\ cb[h].msg # 0 /\ ~cb[h].failed) =>
            \A c \in cb[h].start \cap Range(clients) : recv[c][cb[h].msg] = 1

(***************************************************************************)
(* Refresh outcomes and normalization, input by input.                     *)
(***************************************************************************)
Is2xx(status) == status \in 200..299

\* C13: a refresh succeeds exactly when the OAuth endpoint answers with a 2xx
\* status and a body with a token; every other status fails as a provider
\* rejection carrying that status; a 2xx answer without a token fails as a
\* malformed response.
C13_RefreshSucceedsIff2xxWithToken ==
    reply.kind # "none" =>
        /\ outcome.ok <=> (/\ reply.kind = "response" /\ Is2xx(reply.status)
                           /\ reply.body = "json" /\ Truthy(reply.token))
        /\ (reply.kind = "response" /\ ~Is2xx(reply.status)) =>
               (~outcome.ok /\ outcome.err = "provider_rejected"
                /\ outcome.status = reply.status)
        /\ (reply.kind = "response" /\ Is2xx(reply.status) /\ reply.token = NoneVal) =>
               (~outcome.ok /\ outcome.status = 500)

\* C15: normalizing a callback payload never raises, whatever is missing or
\* malformed in it: it returns an outcome.
C15_NormalizationNeverRaises ==
    payload.kind # "none" => normalized.state = "returned"

\* The amount the claim gives a metadata: the Value of the first item named
\* Amount when that Value is there, nothing otherwise.
RECURSIVE ClaimedAmount(_)
ClaimedAmount(items) ==
    IF items = <<>> THEN None
    ELSE IF Head(items).name = "Amount"
         THEN IF Head(items).value.kind \in {"num", "numstr"}
              THEN Float(Head(items).value.n) ELSE None
    ELSE ClaimedAmount(Tail(items))

\* A push result that passes validation and whose metadata, if any, is a list
\* of {Name, Value} objects, a Value being a number when it is there.
PlainStkPayload ==
    /\ payload.kind = "stk"
    /\ payload.ids = "str" /\ IsInt(payload.rc) /\ payload.desc = "str"
    /\ payload.meta.kind # "scalar" /\ payload.meta.item # "scalar"
    /\ \A k \in 1..Len(payload.meta.items) :
          /\ payload.meta.items[k].dict
          /\ payload.meta.items[k].value.kind \in {"absent", "num", "numstr"}

\* C16: the normalized amount of a push result is the Value of the first
\* metadata item named Amount, and is empty, never 0.0, when there is no
\* usable Amount entry or no metadata.
C16_AmountIsValueOrEmpty ==
    PlainStkPayload =>
        /\ normalized.state = "returned"
        /\ normalized.amount = ClaimedAmount(payload.meta.items)

(***************************************************************************)
(* The effect of get_access_token on the cache.                            *)
(***************************************************************************)
\* C21: a get_access_token() served from the cache leaves the token cache as
\* it is (no set, no clear), and one that refreshes successfully does one
\* set_token, after which the cache holds the token the call returns with
\* the expiry computed, at that moment, from the lifetime it obtained.
C21_HitLeavesCacheRefreshSetsOnce ==
    [][\A r \in Reqs :
          /\ (/\ req[r].pc \in {"idle", "routed"}
              /\ req'[r].pc \in {"pay_wait", "done"}
              /\ ~req'[r].issued
              /\ Truthy(req'[r].tok))
             => UNCHANGED <<_token, _expiry, lastSet>>
          /\ (/\ req[r].pc = "oauth_wait"
              /\ Truthy(req'[r].tok))
             => (/\ lastSet'.some /\ lastSet'.at = now
                 /\ lastSet'.tok = req'[r].tok
                 /\ Cache' = [token |-> req'[r].tok,
                              expiry |-> [some |-> TRUE,
                                          at |-> now + lastSet'.ttl - 60]])]_vars

\* One call refreshed and replaced the token an earlier refresh had cached,
\* and another call was then served from the cache.
C21_Witness ==
    \E r1, r2 \in Reqs :
        /\ req[r1].op = "verify" /\ req[r1].pc = "done" /\ req[r1].tok = "tokB"
        /\ req[r2].op \in {"stk", "b2c"} /\ req[r2].pc = "pay_wait"
        /\ ~req[r2].issued /\ req[r2].tok = "tokB"
        /\ oauthCalls = 2
        /\ Cache = [token |-> "tokB", expiry |-> [some |-> TRUE, at |-> 1]]

\* C22: a get_access_token() that fails (the provider rejects, the reply
\* carries no token, the request times out or fails otherwise), a failed
\* forced refresh included, leaves the token cache as it was: a token that
\* get_token returned before the failure is still returned after it.
C22_FailedCallLeavesCache ==
    [][\A r \in Reqs :
          (/\ req[r].pc = "oauth_wait"
           /\ req'[r].pc = "done"
           /\ req'[r].tok = NoneVal
           /\ req'[r].err \in {"provider_rejected", "no_token", "timeout", "exception"})
          => (/\ UNCHANGED <<_token, _expiry, lastSet>>
              /\ get_token' = get_token)]_vars

\* A forced refresh timed out while the cache held a valid token, and the
\* cache still serves that token.
C22_Witness ==
    \E r \in Reqs :
        /\ req[r].op = "verify" /\ req[r].pc = "done"
        /\ req[r].err = "timeout" /\ req[r].status = 504
        /\ oauthCalls = 2
        /\ lastSet.some /\ get_token = "tokA"

(***************************************************************************)
(* The outcomes of the replay guard.                                       *)
(***************************************************************************)
GuardOutcomes == {"pass"} \cup RejectKinds

\* C23: for a request to a protected path, whatever its headers, the guard
\* ends in one of five ways: it lets the request through, or it rejects it for
\* missing headers, an unknown caller, a bad timestamp or a timestamp out of
\* the window; no header value makes it fail in another way.
C23_GuardEndsInOneOfFiveOutcomes ==
    \A r \in Reqs :
        (Judged /\ req[r].guard.kind # "none") => req[r].guard.kind \in GuardOutcomes

====
